---- MODULE Spec2Model ----
(***************************************************************************)
(* Model of src/ssh.rs of tsunami: Session::connect (key decoding, the     *)
(* TCP dial retry loop with a per-attempt deadline and an overall budget,  *)
(* handshake, key authentication) and Session::cmd_raw / Session::cmd      *)
(* (open an exec channel, read its stdout to end-of-stream, decode UTF-8). *)
(*                                                                         *)
(* Time is a discrete clock `now` counted in seconds.                      *)
(***************************************************************************)
EXTENDS Integers, Sequences, FiniteSets, TLC

\* Overall retry budget in seconds: Duration::from_secs(120).
ConnectBudget == 120

\* Per-attempt deadline in seconds: Duration::from_secs(3).
AttemptDeadline == 3

\* Seconds that may pass before connect is called.
MaxIdle == 1

\* The attempt counter counts up to this value and then saturates.
MaxAttempts == 3

\* Horizon of the clock: late enough for every deadline the loop can set.
MaxTime == MaxIdle + ConnectBudget + AttemptDeadline + 2

\* Number of cmd_raw / cmd futures the caller creates on the session.
MaxCmds == 2

\* Number of bytes the remote side writes to the channels' output streams,
\* all channels together.
MaxBytes == 2

Min(a, b) == IF a <= b THEN a ELSE b

--------------------------------------------------------------------------
(* Inputs of connect *)

\* The key: &str argument: two well-formed keys and one that does not decode.
KeyMaterial == {"pemA", "pemB", "garbage"}

\* thrussh_keys::decode_secret_key(key, None): parses the text into a
\* structured key pair, or returns an error.
decode_secret_key(k) ==
    CASE k = "pemA" -> [ok |-> TRUE, key |-> "KeyPairA"]
      [] k = "pemB" -> [ok |-> TRUE, key |-> "KeyPairB"]
      [] OTHER      -> [ok |-> FALSE, key |-> "none"]

\* Causes of a failed dial attempt: the Deadline elapsed, or the inner
\* TcpStream::connect future returned an io error.
DialCauses == {"DeadlineError::elapsed", "DeadlineError::inner(io::Error)"}

\* Causes of a failed handshake and of a failed authentication.
HandshakeCauses == {"HandshakeError"}
AuthCauses == {"AuthRejected", "Disconnected"}

\* format_err!("{:?}", e): the error chain is kept only as its Debug rendering.
format_err(chain) == <<"Debug">> \o chain

\* Fail::context / ResultExt::context: wraps an error chain in a context.
context(ctx, chain) == <<ctx>> \o chain

NoErr == << >>

--------------------------------------------------------------------------
(* Inputs and library functions of cmd_raw / cmd *)

\* The cmd: &str argument: the caller passes "ls" in its odd calls and "id" in
\* its even calls.
Cmds == {"ls", "id"}
CmdArg(i) == IF i % 2 = 1 THEN "ls" ELSE "id"

\* Byte values the remote command writes: 'A', and the two bytes of U+00E9.
OutBytes == {65, 195, 169}

\* What one read of the channel returns: one or two bytes.
Chunks == {<<a>> : a \in OutBytes} \cup {<<a, b>> : a \in OutBytes, b \in OutBytes}

\* Causes of a failed open_exec and of a failed read.
OpenCauses == {"ChannelOpenFailure"}
ReadCauses == {"io::Error"}

\* How the remote command can end: its exit status and what it wrote to
\* stderr.
RemoteOutcomes ==
    {[status |-> 0, stderr |-> << >>],
     [status |-> 1, stderr |-> <<69>>]}

\* format!("failed to execute command '{}'", cmd) and its siblings.
ExecCtx(c) == <<"failed to execute command", c>>
ReadCtx(c) == <<"failed to read stdout of command", c>>
Utf8Ctx == <<"invalid utf-8 in command output">>

Ok(v) == [tag |-> "Ok", val |-> v]
Err(chain) == [tag |-> "Err", val |-> chain]

\* core::str: the length of a UTF-8 sequence given its first byte, 0 when the
\* byte cannot start one.
utf8_char_width(b) ==
    IF b < 128 THEN 1
    ELSE IF b >= 194 /\ b <= 223 THEN 2
    ELSE IF b >= 224 /\ b <= 239 THEN 3
    ELSE IF b >= 240 /\ b <= 244 THEN 4
    ELSE 0

IsContinuation(b) == b >= 128 /\ b <= 191

\* core::str: the range the second byte must lie in (overlong forms,
\* surrogates and values above U+10FFFF are rejected).
SecondByteOk(first, second) ==
    CASE first = 224 -> second >= 160 /\ second <= 191
      [] first = 237 -> second >= 128 /\ second <= 159
      [] first = 240 -> second >= 144 /\ second <= 191
      [] first = 244 -> second >= 128 /\ second <= 143
      [] OTHER -> IsContinuation(second)

\* core::str::run_utf8_validation.
RECURSIVE run_utf8_validation(_)
run_utf8_validation(b) ==
    IF b = << >> THEN TRUE
    ELSE LET w == utf8_char_width(b[1]) IN
         /\ w # 0
         /\ Len(b) >= w
         /\ (w >= 2) => SecondByteOk(b[1], b[2])
         /\ \A k \in 3..w : IsContinuation(b[k])
         /\ run_utf8_validation(SubSeq(b, w + 1, Len(b)))

\* Mutant of from_utf8: String::from_utf8_lossy, which never fails and puts
\* U+FFFD in the place of every byte that is not part of valid UTF-8.
RECURSIVE lossy_bytes(_)
lossy_bytes(b) ==
    IF b = << >> THEN << >>
    ELSE LET w == utf8_char_width(b[1]) IN
         IF w # 0 /\ Len(b) >= w /\ run_utf8_validation(SubSeq(b, 1, w))
         THEN SubSeq(b, 1, w) \o lossy_bytes(SubSeq(b, w + 1, Len(b)))
         ELSE <<239, 191, 189>> \o lossy_bytes(SubSeq(b, 2, Len(b)))

from_utf8_lossy(b) == Ok(lossy_bytes(b))

\* String::from_utf8(bytes).context("invalid utf-8 in command output"): the
\* String owns the very bytes it was given, once they are validated.
from_utf8(b) ==
    IF run_utf8_validation(b)
    THEN Ok(b)
    ELSE Err(context(Utf8Ctx, <<"FromUtf8Error">>))

\* The chars of a String: the Unicode scalar values its bytes encode.
RECURSIVE chars(_)
chars(b) ==
    IF b = << >> THEN << >>
    ELSE LET w == utf8_char_width(b[1])
             cp == CASE w = 1 -> b[1]
                     [] w = 2 -> (b[1] - 192) * 64 + (b[2] - 128)
                     [] w = 3 -> (b[1] - 224) * 4096 + (b[2] - 128) * 64 + (b[3] - 128)
                     [] OTHER -> (b[1] - 240) * 262144 + (b[2] - 128) * 4096
                                    + (b[3] - 128) * 64 + (b[4] - 128)
         IN <<cp>> \o chars(SubSeq(b, w + 1, Len(b)))

\* char::encode_utf8.
encode_utf8(cp) ==
    IF cp < 128 THEN <<cp>>
    ELSE IF cp < 2048 THEN <<192 + (cp \div 64), 128 + (cp % 64)>>
    ELSE IF cp < 65536
         THEN <<224 + (cp \div 4096), 128 + ((cp \div 64) % 64), 128 + (cp % 64)>>
    ELSE <<240 + (cp \div 262144), 128 + ((cp \div 4096) % 64),
           128 + ((cp \div 64) % 64), 128 + (cp % 64)>>

\* The UTF-8 encoding of a text (a sequence of scalar values).
RECURSIVE encode_text(_)
encode_text(t) ==
    IF t = << >> THEN << >> ELSE encode_utf8(t[1]) \o encode_text(Tail(t))

--------------------------------------------------------------------------
VARIABLES
    pc,         \* position of the connect call
    now,        \* the clock, in seconds
    start,      \* let start = Instant::now()
    deadline,   \* deadline of the current dial attempt, 0 once the loop is left
    polled,     \* the returned future has been polled at least once
    promptPoll, \* the first poll came within budget + one attempt deadline
    keyIn,      \* the key argument
    key,        \* the decoded key moved into the future
    decodes,    \* number of decode_secret_key calls of this connect call
    attempts,   \* dial attempts started (saturating at MaxAttempts)
    sock,       \* socket the retry loop broke with (attempt number), 0 if none
    transport,  \* async_ssh session built by the handshake: its socket, 0 if none
    hsCount,    \* handshakes started
    authCount,  \* authentications started
    authKey,    \* key handed to authenticate_key
    live,       \* the dial attempts whose connect future exists
    session,    \* the returned Session, or NoSession
    err,        \* the error chain the future resolved to, outermost first
    borrow,     \* the call holding &mut Session (its future's index), 0 if none
    cstate,     \* per command future: its position
    ckind,      \* per command future: built by "cmd_raw" or by "cmd"
    ccmd,       \* per command future: the cmd: &str argument
    delivered,  \* per command future: bytes its channel's stdout has delivered
    eof,        \* per command future: the channel's stdout reached end-of-stream
    buf,        \* per command future: the Vec<u8> read_to_end fills
    rawres,     \* per command future: what its cmd_raw future resolved to
    result,     \* per command future: what it resolved to
    solo,       \* per command future: no other command was pending at its call
    exitStatus, \* per command future: the exit status its channel reported, if any
    stderrOut,  \* per command future: what its channel delivered as stderr
    peer        \* a second connect call, of another session, on the same clock

connVars == <<pc, now, start, deadline, polled, promptPoll, keyIn, key, decodes,
              attempts, live, sock, transport, hsCount, authCount, authKey, session,
              err>>

chanVars == <<exitStatus, stderrOut>>

cmdVars == <<borrow, cstate, ckind, ccmd, delivered, eof, buf, rawres, result, solo,
             chanVars>>

vars == <<connVars, cmdVars, peer>>

CmdIds == 1..MaxCmds

NoResult == [tag |-> "Pending", val |-> << >>]

\* No cmd_raw / cmd call has been made.
NoCommands ==
    /\ borrow = 0
    /\ cstate = [i \in CmdIds |-> "unused"]
    /\ ckind = [i \in CmdIds |-> "none"]
    /\ ccmd = [i \in CmdIds |-> "none"]
    /\ delivered = [i \in CmdIds |-> << >>]
    /\ eof = [i \in CmdIds |-> FALSE]
    /\ buf = [i \in CmdIds |-> << >>]
    /\ rawres = [i \in CmdIds |-> NoResult]
    /\ result = [i \in CmdIds |-> NoResult]
    /\ solo = [i \in CmdIds |-> FALSE]
    /\ exitStatus = [i \in CmdIds |-> << >>]
    /\ stderrOut = [i \in CmdIds |-> << >>]

NoSession == [sock |-> 0, authenticated |-> FALSE]

\* The second connect call has not been made.
PeerIdle == [pc |-> "idle", start |-> 0, deadline |-> 0, polled |-> FALSE, err |-> NoErr]

Elapsed == now - start

Init ==
    /\ pc = "idle"
    /\ now = 0
    /\ start = 0
    /\ deadline = 0
    /\ polled = FALSE
    /\ promptPoll = TRUE
    /\ keyIn = "none"
    /\ key = "none"
    /\ decodes = 0
    /\ attempts = 0
    /\ live = {}
    /\ sock = 0
    /\ transport = 0
    /\ hsCount = 0
    /\ authCount = 0
    /\ authKey = "none"
    /\ session = NoSession
    /\ err = NoErr
    /\ NoCommands
    /\ peer = PeerIdle

--------------------------------------------------------------------------
(* Session::connect *)

\* Mutant of NewAttempt: the deadline is counted from the start of connect.
NewAttempt_FromStart ==
    /\ attempts' = Min(attempts + 1, MaxAttempts)
    /\ live' = {Min(attempts + 1, MaxAttempts)}
    /\ deadline' = start + AttemptDeadline

\* Mutant of NewAttempt: the connect future of the attempt that failed is
\* kept when the next attempt is created.
NewAttempt_KeepsOld ==
    /\ attempts' = Min(attempts + 1, MaxAttempts)
    /\ live' = live \cup {Min(attempts + 1, MaxAttempts)}
    /\ deadline' = now + AttemptDeadline

\* A new dial attempt: the loop_fn closure builds
\* Deadline::new(TcpStream::connect(..), Instant::now() + 3 s). It is the only
\* connect future there is: .then dropped the one that failed before its
\* closure returned Loop::Continue.
NewAttempt ==
    /\ attempts' = Min(attempts + 1, MaxAttempts)
    /\ live' = {Min(attempts + 1, MaxAttempts)}
    /\ deadline' = now + AttemptDeadline

\* The body of connect up to the return of the boxed future. The key is
\* decoded with unwrap(): a key that does not decode panics. loop_fn calls
\* its closure once when it is built, so the first attempt is created here.
connect(k) ==
    /\ pc = "idle"
    /\ keyIn' = k
    /\ decodes' = decodes + 1
    /\ IF decode_secret_key(k).ok
       THEN /\ key' = decode_secret_key(k).key
            /\ start' = now
            /\ NewAttempt
            /\ pc' = "dialing"
       ELSE /\ pc' = "panicked"
            /\ UNCHANGED <<key, start, attempts, live, deadline>>
    /\ UNCHANGED <<now, polled, promptPoll, sock, transport, hsCount, authCount,
                   authKey, session, err>>
    /\ UNCHANGED <<cmdVars, peer>>

\* Mutant of FirstPoll: the budget clock and the first attempt's deadline
\* start at the first poll.
FirstPoll_StartsClock ==
    /\ pc = "dialing"
    /\ ~polled
    /\ polled' = TRUE
    /\ promptPoll' = (Elapsed <= ConnectBudget + AttemptDeadline)
    /\ start' = now
    /\ deadline' = now + AttemptDeadline
    /\ UNCHANGED <<pc, now, keyIn, key, decodes, attempts, live, sock,
                   transport, hsCount, authCount, authKey, session, err>>
    /\ UNCHANGED <<cmdVars, peer>>

\* The caller polls the returned future for the first time.
FirstPoll ==
    /\ pc = "dialing"
    /\ ~polled
    /\ polled' = TRUE
    /\ promptPoll' = (Elapsed <= ConnectBudget + AttemptDeadline)
    /\ UNCHANGED <<pc, now, start, deadline, keyIn, key, decodes, attempts, live, sock,
                   transport, hsCount, authCount, authKey, session, err>>
    /\ UNCHANGED <<cmdVars, peer>>

\* Mutant of DialOk: a connection made after the budget ran out is refused.
DialOk_BudgetChecked ==
    /\ pc = "dialing"
    /\ polled
    /\ sock' \in live
    /\ live' = {}
    /\ deadline' = 0
    /\ IF Elapsed <= ConnectBudget
       THEN /\ pc' = "handshaking"
            /\ hsCount' = hsCount + 1
            /\ UNCHANGED err
       ELSE /\ pc' = "failed"
            /\ err' = context("failed to connect to ssh port",
                          context("failed to connect to ssh port", <<"budget">>))
            /\ UNCHANGED hsCount
    /\ UNCHANGED <<now, start, polled, promptPoll, keyIn, key, decodes,
                   attempts, transport, authCount, authKey, session>>
    /\ UNCHANGED <<cmdVars, peer>>

\* Mutant of DialOk: the socket is recorded but the loop dials once more.
DialOk_Redial ==
    /\ pc = "dialing"
    /\ polled
    /\ sock' \in live
    /\ live' = {}
    /\ attempts' = Min(attempts + 1, MaxAttempts)
    /\ deadline' = 0
    /\ pc' = "handshaking"
    /\ hsCount' = hsCount + 1
    /\ UNCHANGED <<now, start, polled, promptPoll, keyIn, key, decodes,
                   transport, authCount, authKey, session, err>>
    /\ UNCHANGED <<cmdVars, peer>>

\* Ok(c) => Loop::Break(c): the attempt connected before the Deadline fired
\* (Deadline polls the connect future before its timer, so a connection made
\* by the time of a late first poll is accepted too).
DialOk ==
    /\ pc = "dialing"
    /\ polled
    /\ sock' \in live
    /\ live' = {}
    /\ deadline' = 0
    /\ pc' = "handshaking"
    /\ hsCount' = hsCount + 1
    /\ UNCHANGED <<now, start, polled, promptPoll, keyIn, key, decodes,
                   attempts, transport, authCount, authKey, session, err>>
    /\ UNCHANGED <<cmdVars, peer>>

\* Mutant of WithinBudget: an attempt failing at exactly 120 s is the last.
WithinBudget_Strict == Elapsed < ConnectBudget

\* Mutant of WithinBudget: the first failed attempt already ends the loop.
WithinBudget_Never == FALSE

\* The guard of the retry arm: start.elapsed() <= Duration::from_secs(120).
WithinBudget == Elapsed <= ConnectBudget

\* Mutant of DialErr: every retry decodes the key again.
DialErr_Redecode(cause) ==
    /\ pc = "dialing"
    /\ polled
    /\ (cause = "DeadlineError::elapsed") => now >= deadline
    /\ IF WithinBudget
       THEN /\ NewAttempt
            /\ decodes' = decodes + 1
            /\ UNCHANGED <<pc, err>>
       ELSE /\ pc' = "failed"
            /\ err' = context("failed to connect to ssh port",
                          context("failed to connect to ssh port", <<cause>>))
            /\ deadline' = 0
            /\ live' = {}
            /\ UNCHANGED <<attempts, decodes>>
    /\ UNCHANGED <<now, start, polled, promptPoll, keyIn, key, sock,
                   transport, hsCount, authCount, authKey, session>>
    /\ UNCHANGED <<cmdVars, peer>>

\* Err(_) if start.elapsed() <= 120 s => Loop::Continue(());
\* Err(e) => Err(Error::from(e).context(..)), wrapped once more by the
\* .then(|r| r.context(..)) that follows the loop.
DialErr(cause) ==
    /\ pc = "dialing"
    /\ polled
    /\ (cause = "DeadlineError::elapsed") => now >= deadline
    /\ IF WithinBudget
       THEN /\ NewAttempt
            /\ UNCHANGED <<pc, err>>
       ELSE /\ pc' = "failed"
            /\ err' = context("failed to connect to ssh port",
                          context("failed to connect to ssh port", <<cause>>))
            /\ deadline' = 0
            /\ live' = {}
            /\ UNCHANGED attempts
    /\ UNCHANGED <<now, start, polled, promptPoll, keyIn, key, decodes, sock,
                   transport, hsCount, authCount, authKey, session>>
    /\ UNCHANGED <<cmdVars, peer>>

\* async_ssh::Session::new(c, &handle) succeeded; authenticate_key is started
\* on the new transport session with the decoded key.
HandshakeOk ==
    /\ pc = "handshaking"
    /\ transport' = sock
    /\ authCount' = authCount + 1
    /\ authKey' = key
    /\ pc' = "authenticating"
    /\ UNCHANGED <<now, start, deadline, polled, promptPoll, keyIn, key, decodes,
                   attempts, live, sock, hsCount, session, err>>
    /\ UNCHANGED <<cmdVars, peer>>

\* Mutant of HandshakeErr: a failed handshake goes back to dialing while the
\* budget lasts.
HandshakeErr_Retry(cause) ==
    /\ pc = "handshaking"
    /\ IF WithinBudget
       THEN /\ NewAttempt
            /\ pc' = "dialing"
            /\ UNCHANGED err
       ELSE /\ pc' = "failed"
            /\ err' = context("failed to establish ssh session", format_err(<<cause>>))
            /\ UNCHANGED <<attempts, live, deadline>>
    /\ UNCHANGED <<now, start, polled, promptPoll, keyIn, key, decodes,
                   sock, transport, hsCount, authCount, authKey, session>>
    /\ UNCHANGED <<cmdVars, peer>>

\* async_ssh::Session::new failed: .context("failed to establish ssh session").
HandshakeErr(cause) ==
    /\ pc = "handshaking"
    /\ pc' = "failed"
    /\ err' = context("failed to establish ssh session", format_err(<<cause>>))
    /\ UNCHANGED <<now, start, deadline, polled, promptPoll, keyIn, key, decodes,
                   attempts, live, sock, transport, hsCount, authCount, authKey, session>>
    /\ UNCHANGED <<cmdVars, peer>>

\* authenticate_key succeeded: .map(|ssh| Session { ssh }).
AuthOk ==
    /\ pc = "authenticating"
    /\ session' = [sock |-> transport, authenticated |-> TRUE]
    /\ pc' = "connected"
    /\ UNCHANGED <<now, start, deadline, polled, promptPoll, keyIn, key, decodes,
                   attempts, live, sock, transport, hsCount, authCount, authKey, err>>
    /\ UNCHANGED <<cmdVars, peer>>

\* Mutant of AuthErr: the failure is swallowed and the session is returned.
AuthErr_Swallowed(cause) ==
    /\ pc = "authenticating"
    /\ session' = [sock |-> transport, authenticated |-> FALSE]
    /\ pc' = "connected"
    /\ UNCHANGED <<now, start, deadline, polled, promptPoll, keyIn, key, decodes,
                   attempts, live, sock, transport, hsCount, authCount, authKey, err>>
    /\ UNCHANGED <<cmdVars, peer>>

\* authenticate_key failed: .context("failed to authenticate ssh session").
AuthErr(cause) ==
    /\ pc = "authenticating"
    /\ pc' = "failed"
    /\ err' = context("failed to authenticate ssh session", format_err(<<cause>>))
    /\ UNCHANGED <<now, start, deadline, polled, promptPoll, keyIn, key, decodes,
                   attempts, live, sock, transport, hsCount, authCount, authKey, session>>
    /\ UNCHANGED <<cmdVars, peer>>

\* Mutant of Tick: the budget bounds the handshake and the authentication
\* too, which fail once it is used up.
Tick_BudgetEverywhere ==
    /\ now < MaxTime
    /\ \/ pc = "idle" /\ now < MaxIdle
       \/ pc = "dialing" /\ ~polled
       \/ pc = "dialing" /\ polled /\ now < deadline
       \/ pc \in {"handshaking", "authenticating"}
    /\ now' = now + 1
    /\ IF pc \in {"handshaking", "authenticating"} /\ Elapsed >= ConnectBudget
       THEN /\ pc' = "failed"
            /\ err' = context("failed to connect to ssh port", <<"timeout">>)
       ELSE UNCHANGED <<pc, err>>
    /\ UNCHANGED <<start, deadline, polled, promptPoll, keyIn, key, decodes,
                   attempts, live, sock, transport, hsCount, authCount, authKey,
                   session>>
    /\ UNCHANGED <<cmdVars, peer>>

\* One second passes. A polled Deadline resolves no later than its instant;
\* nothing bounds the time before connect is called, before the first poll,
\* or while the handshake or the authentication is pending.
Tick ==
    /\ now < MaxTime
    /\ \/ pc = "idle" /\ now < MaxIdle
       \/ pc = "dialing" /\ ~polled
       \/ pc = "dialing" /\ polled /\ now < deadline
       \/ pc \in {"handshaking", "authenticating"}
    /\ now' = now + 1
    /\ UNCHANGED <<pc, start, deadline, polled, promptPoll, keyIn, key, decodes,
                   attempts, live, sock, transport, hsCount, authCount, authKey, session, err>>
    /\ UNCHANGED <<cmdVars, peer>>

--------------------------------------------------------------------------
(* Session::cmd_raw and Session::cmd *)

\* A Session exists: connect returned it.
HaveSession == pc = "connected" /\ session.authenticated

\* Mutant of SessionFree: the methods take &self, so calls may overlap.
SessionFree_Shared == TRUE

\* &mut self: a call can be made only while no other call holds the session.
SessionFree == borrow = 0

RECURSIVE BytesUpTo(_)
BytesUpTo(n) == IF n = 0 THEN 0 ELSE Len(delivered[n]) + BytesUpTo(n - 1)

\* Bytes delivered so far on all channels.
BytesDelivered == BytesUpTo(MaxCmds)

Pending(i) == cstate[i] \in {"called", "opening", "reading"}

\* cmd_raw or cmd is entered with &mut self and calls self.ssh.open_exec(cmd).
Enter(i, kind, c) ==
    /\ HaveSession
    /\ cstate[i] = "unused"
    /\ \A j \in CmdIds : j < i => cstate[j] # "unused"
    /\ SessionFree
    /\ borrow' = i
    /\ cstate' = [cstate EXCEPT ![i] = "called"]
    /\ ckind' = [ckind EXCEPT ![i] = kind]
    /\ ccmd' = [ccmd EXCEPT ![i] = c]
    /\ solo' = [solo EXCEPT ![i] = \A j \in CmdIds : ~Pending(j)]
    /\ UNCHANGED <<delivered, eof, buf, rawres, result>>
    /\ UNCHANGED <<connVars, chanVars, peer>>

cmd_raw(i, c) == Enter(i, "cmd_raw", c)

cmd(i, c) == Enter(i, "cmd", c)

\* The call returns its Box<Future + 'a>: 'a is the lifetime of cmd alone, so
\* the future does not hold the borrow of the session, which ends here.
Return(i) ==
    /\ cstate[i] = "called"
    /\ borrow = i
    /\ borrow' = 0
    /\ cstate' = [cstate EXCEPT ![i] = "opening"]
    /\ UNCHANGED <<ckind, ccmd, delivered, eof, buf, rawres, result, solo>>
    /\ UNCHANGED <<connVars, chanVars, peer>>

\* The future resolves: a cmd_raw future to r; a cmd future to
\* r.and_then(|bytes| String::from_utf8(bytes).context(..)).
Resolve(i, r) ==
    /\ cstate' = [cstate EXCEPT ![i] = "done"]
    /\ rawres' = [rawres EXCEPT ![i] = r]
    /\ result' = [result EXCEPT ![i] =
                    IF ckind[i] = "cmd" /\ r.tag = "Ok" THEN from_utf8(r.val) ELSE r]

\* Mutant of OpenOk: the buffer of the command before is used again.
OpenOk_ReusedBuf(i) ==
    /\ cstate[i] = "opening"
    /\ cstate' = [cstate EXCEPT ![i] = "reading"]
    /\ buf' = [buf EXCEPT ![i] = IF i > 1 THEN buf[i - 1] ELSE << >>]
    /\ UNCHANGED <<borrow, ckind, ccmd, delivered, eof, rawres, result, solo>>
    /\ UNCHANGED <<connVars, chanVars, peer>>

\* open_exec succeeded: read_to_end(c, Vec::new()) starts on the new channel.
OpenOk(i) ==
    /\ cstate[i] = "opening"
    /\ cstate' = [cstate EXCEPT ![i] = "reading"]
    /\ buf' = [buf EXCEPT ![i] = << >>]
    /\ UNCHANGED <<borrow, ckind, ccmd, delivered, eof, rawres, result, solo>>
    /\ UNCHANGED <<connVars, chanVars, peer>>

\* Mutant of OpenErr: a channel that cannot be opened counts as empty output.
OpenErr_Swallowed(i, cause) ==
    /\ cstate[i] = "opening"
    /\ Resolve(i, Ok(<< >>))
    /\ UNCHANGED <<borrow, ckind, ccmd, delivered, eof, buf, solo>>
    /\ UNCHANGED <<connVars, chanVars, peer>>

\* open_exec failed: both map_err render the cause, then
\* .context(format!("failed to execute command '{}'", cmd)).
OpenErr(i, cause) ==
    /\ cstate[i] = "opening"
    /\ Resolve(i, Err(context(ExecCtx(ccmd[i]), format_err(format_err(<<cause>>)))))
    /\ UNCHANGED <<borrow, ckind, ccmd, delivered, eof, buf, solo>>
    /\ UNCHANGED <<connVars, chanVars, peer>>

\* One read of read_to_end: the channel delivers a chunk, appended to the Vec.
Read(i, chunk) ==
    /\ cstate[i] = "reading"
    /\ BytesDelivered + Len(chunk) <= MaxBytes
    /\ delivered' = [delivered EXCEPT ![i] = @ \o chunk]
    /\ buf' = [buf EXCEPT ![i] = @ \o chunk]
    /\ UNCHANGED <<borrow, cstate, ckind, ccmd, eof, rawres, result, solo>>
    /\ UNCHANGED <<connVars, chanVars, peer>>

\* Mutant of ReadErr: the bytes read so far are returned as the output.
ReadErr_Partial(i, cause) ==
    /\ cstate[i] = "reading"
    /\ Resolve(i, Ok(buf[i]))
    /\ UNCHANGED <<borrow, ckind, ccmd, delivered, eof, buf, solo>>
    /\ UNCHANGED <<connVars, chanVars, peer>>

\* A read failed: .context(format!("failed to read stdout of command '{}'", cmd));
\* the Vec is dropped with the read_to_end future.
ReadErr(i, cause) ==
    /\ cstate[i] = "reading"
    /\ Resolve(i, Err(context(ReadCtx(ccmd[i]), <<cause>>)))
    /\ UNCHANGED <<borrow, ckind, ccmd, delivered, eof, buf, solo>>
    /\ UNCHANGED <<connVars, chanVars, peer>>

\* Mutant of ReadEof: a nonzero exit status or output on stderr fails the
\* command.
ReadEof_ChecksExit(i) ==
    /\ cstate[i] = "reading"
    /\ eof' = [eof EXCEPT ![i] = TRUE]
    /\ \E o \in RemoteOutcomes :
          /\ exitStatus' = [exitStatus EXCEPT ![i] = <<o.status>>]
          /\ stderrOut' = [stderrOut EXCEPT ![i] = o.stderr]
          /\ Resolve(i, IF o.status = 0 /\ o.stderr = << >>
                        THEN Ok(buf[i])
                        ELSE Err(<<"command failed", ccmd[i]>>))
    /\ UNCHANGED <<borrow, ckind, ccmd, delivered, buf, solo>>
    /\ UNCHANGED <<connVars, peer>>

\* A read returned 0 bytes, end-of-stream: .map(|(_, b)| b). The remote
\* command has exited with some status and has written something or nothing
\* to stderr; the code reads neither (the TODOs of lines 68-69).
ReadEof(i) ==
    /\ cstate[i] = "reading"
    /\ eof' = [eof EXCEPT ![i] = TRUE]
    /\ \E o \in RemoteOutcomes :
          /\ exitStatus' = [exitStatus EXCEPT ![i] = <<o.status>>]
          /\ stderrOut' = [stderrOut EXCEPT ![i] = o.stderr]
    /\ Resolve(i, Ok(buf[i]))
    /\ UNCHANGED <<borrow, ckind, ccmd, delivered, buf, solo>>
    /\ UNCHANGED <<connVars, peer>>

NextCmd ==
    \/ \E i \in CmdIds : cmd_raw(i, CmdArg(i))
    \/ \E i \in CmdIds : cmd(i, CmdArg(i))
    \/ \E i \in CmdIds : Return(i)
    \/ \E i \in CmdIds : OpenOk(i)
    \/ \E i \in CmdIds, c \in OpenCauses : OpenErr(i, c)
    \/ \E i \in CmdIds, ch \in Chunks : Read(i, ch)
    \/ \E i \in CmdIds, c \in ReadCauses : ReadErr(i, c)
    \/ \E i \in CmdIds : ReadEof(i)

\* The state after a connect that succeeded at its first dial attempt.
Established ==
    /\ pc = "connected"
    /\ now = 0
    /\ start = 0
    /\ deadline = 0
    /\ polled = TRUE
    /\ promptPoll = TRUE
    /\ keyIn = "pemA"
    /\ key = "KeyPairA"
    /\ decodes = 1
    /\ attempts = 1
    /\ live = {}
    /\ sock = 1
    /\ transport = 1
    /\ hsCount = 1
    /\ authCount = 1
    /\ authKey = "KeyPairA"
    /\ session = [sock |-> 1, authenticated |-> TRUE]
    /\ err = NoErr

InitCmd == Established /\ NoCommands /\ peer = PeerIdle

\* Command execution on an established session.
SpecCmd == InitCmd /\ [][NextCmd]_vars

NextConnect ==
    \/ \E k \in KeyMaterial : connect(k)
    \/ FirstPoll
    \/ DialOk
    \/ \E c \in DialCauses : DialErr(c)
    \/ HandshakeOk
    \/ \E c \in HandshakeCauses : HandshakeErr(c)
    \/ AuthOk
    \/ \E c \in AuthCauses : AuthErr(c)
    \/ Tick

Next == NextConnect

Spec == Init /\ [][Next]_vars

\* The connect protocol with the scheduling the runtime provides: the clock
\* advances, the caller polls the future it was given, and the Deadline of a
\* polled dial attempt fires when its instant is reached. Nothing obliges a
\* dial attempt to succeed.
LiveSpec ==
    /\ Init /\ [][NextConnect]_vars
    /\ WF_vars(Tick)
    /\ WF_vars(FirstPoll)
    /\ WF_vars(DialErr("DeadlineError::elapsed"))

\* A connect call, and the commands run on the session of a connect that
\* succeeded at its first attempt.
NextSession ==
    \/ NextConnect
    \/ Established /\ NextCmd

SpecSession == Init /\ [][NextSession]_vars

--------------------------------------------------------------------------
(* A second session: another call of Session::connect *)

\* Mutant of PeerConnect: start is one timestamp shared by all connect calls.
PeerConnect_SharedStart ==
    /\ peer.pc = "idle"
    /\ start' = now
    /\ peer' = [peer EXCEPT !.pc = "dialing", !.start = now,
                            !.deadline = now + AttemptDeadline]
    /\ UNCHANGED <<pc, now, deadline, polled, promptPoll, keyIn, key, decodes,
                   attempts, live, sock, transport, hsCount, authCount, authKey,
                   session, err>>
    /\ UNCHANGED cmdVars

\* connect called for another session, with a key that decodes: its own
\* start, its own first attempt and deadline.
PeerConnect ==
    /\ peer.pc = "idle"
    /\ peer' = [peer EXCEPT !.pc = "dialing", !.start = now,
                            !.deadline = now + AttemptDeadline]
    /\ UNCHANGED <<connVars, cmdVars>>

PeerFirstPoll ==
    /\ peer.pc = "dialing"
    /\ ~peer.polled
    /\ peer' = [peer EXCEPT !.polled = TRUE]
    /\ UNCHANGED <<connVars, cmdVars>>

PeerDialOk ==
    /\ peer.pc = "dialing"
    /\ peer.polled
    /\ peer' = [peer EXCEPT !.pc = "handshaking", !.deadline = 0]
    /\ UNCHANGED <<connVars, cmdVars>>

\* The retry arm and the failing arm, on the second call's own start.
PeerDialErr(cause) ==
    /\ peer.pc = "dialing"
    /\ peer.polled
    /\ (cause = "DeadlineError::elapsed") => now >= peer.deadline
    /\ peer' = IF now - peer.start <= ConnectBudget
               THEN [peer EXCEPT !.deadline = now + AttemptDeadline]
               ELSE [peer EXCEPT !.pc = "failed", !.deadline = 0,
                                 !.err = context("failed to connect to ssh port",
                                            context("failed to connect to ssh port",
                                                    <<cause>>))]
    /\ UNCHANGED <<connVars, cmdVars>>

PeerHandshakeOk ==
    /\ peer.pc = "handshaking"
    /\ peer' = [peer EXCEPT !.pc = "authenticating"]
    /\ UNCHANGED <<connVars, cmdVars>>

PeerHandshakeErr(cause) ==
    /\ peer.pc = "handshaking"
    /\ peer' = [peer EXCEPT !.pc = "failed",
                            !.err = context("failed to establish ssh session",
                                            format_err(<<cause>>))]
    /\ UNCHANGED <<connVars, cmdVars>>

PeerAuthOk ==
    /\ peer.pc = "authenticating"
    /\ peer' = [peer EXCEPT !.pc = "connected"]
    /\ UNCHANGED <<connVars, cmdVars>>

PeerAuthErr(cause) ==
    /\ peer.pc = "authenticating"
    /\ peer' = [peer EXCEPT !.pc = "failed",
                            !.err = context("failed to authenticate ssh session",
                                            format_err(<<cause>>))]
    /\ UNCHANGED <<connVars, cmdVars>>

PeerNext ==
    \/ PeerConnect
    \/ PeerFirstPoll
    \/ PeerDialOk
    \/ \E c \in DialCauses : PeerDialErr(c)
    \/ PeerHandshakeOk
    \/ \E c \in HandshakeCauses : PeerHandshakeErr(c)
    \/ PeerAuthOk
    \/ \E c \in AuthCauses : PeerAuthErr(c)

\* The clock is the same for both calls: a second passes when the second
\* call allows it too (it is over, or Tick's conditions hold for it).
PeerTimeMayPass ==
    \/ peer.pc = "idle" /\ now < MaxIdle
    \/ peer.pc = "dialing" /\ ~peer.polled
    \/ peer.pc = "dialing" /\ peer.polled /\ now < peer.deadline
    \/ peer.pc \in {"handshaking", "authenticating", "connected", "failed"}

\* The commands of the first session are followed on its first future.
FirstFutureOnly == \A j \in CmdIds \ {1} : cstate'[j] = "unused"

\* Two sessions side by side: the steps of either one in any order.
NextTwo ==
    \/ NextSession /\ now' = now /\ FirstFutureOnly
    \/ Tick /\ PeerTimeMayPass
    \/ PeerNext

SpecTwo == Init /\ [][NextTwo]_vars

--------------------------------------------------------------------------
(* Properties of Session::connect *)

ConnectCtx == "failed to connect to ssh port"
HandshakeCtx == "failed to establish ssh session"
AuthCtx == "failed to authenticate ssh session"

\* The call ended with the error of the given context.
FailedWith(ctx) == pc = "failed" /\ Len(err) > 0 /\ err[1] = ctx

\* C1 (as stated): when every dial attempt fails, connect fails with "failed
\* to connect", never while the elapsed time is within the 120 s budget and
\* never later than budget + one 3 s attempt deadline.
C1_FailsWithinBudgetPlusDeadline ==
    FailedWith(ConnectCtx) =>
        /\ Elapsed > ConnectBudget
        /\ Elapsed <= ConnectBudget + AttemptDeadline

\* C1 (amended): the dial loop always ends, with a socket or with "failed to
\* connect"; it fails only once the elapsed time since the connect call
\* exceeds the budget; and it fails no later than budget + one attempt
\* deadline provided the returned future was first polled by then.
C1_DialLoopEndsAfterBudget ==
    /\ [](FailedWith(ConnectCtx) =>
            /\ Elapsed > ConnectBudget
            /\ promptPoll => Elapsed <= ConnectBudget + AttemptDeadline)
    /\ ((pc = "dialing") ~> (FailedWith(ConnectCtx) \/ sock # 0))

C1_Witness ==
    /\ FailedWith(ConnectCtx)
    /\ promptPoll
    /\ attempts = MaxAttempts
    /\ Elapsed = ConnectBudget + AttemptDeadline

\* C2: once a dial attempt succeeds the loop is left with that socket and no
\* further attempt is started; a first attempt that succeeds is the only one.
C2_NoDialAfterSuccess ==
    /\ [](pc \in {"handshaking", "authenticating", "connected"} =>
            sock # 0 /\ attempts = sock)
    /\ [][sock # 0 => (attempts' = attempts /\ sock' = sock)]_vars

C2_Witness == pc = "connected" /\ sock = 1 /\ attempts = 1

\* C3: a key that cannot be decoded makes connect return an error result
\* (KeyDecodeError) at once, with no dial, handshake or authentication.
C3_KeyDecodeErrorReturned ==
    (pc # "idle" /\ ~decode_secret_key(keyIn).ok) =>
        /\ FailedWith("KeyDecodeError")
        /\ attempts = 0 /\ hsCount = 0 /\ authCount = 0

\* C4: a handshake or authentication failure ends the call with its own
\* context wrapping the cause, and a failed call takes no further dial,
\* handshake or authentication step, whatever is left of the budget.
C4_HandshakeAuthFatal ==
    /\ [][(pc = "handshaking" /\ pc' \notin {"handshaking", "authenticating"}) =>
            /\ pc' = "failed"
            /\ err' \in {context(HandshakeCtx, format_err(<<c>>)) : c \in HandshakeCauses}]_vars
    /\ [][(pc = "authenticating" /\ pc' \notin {"authenticating", "connected"}) =>
            /\ pc' = "failed"
            /\ err' \in {context(AuthCtx, format_err(<<c>>)) : c \in AuthCauses}]_vars
    /\ [][pc = "failed" =>
            /\ pc' = "failed" /\ err' = err /\ session' = NoSession
            /\ attempts' = attempts /\ hsCount' = hsCount /\ authCount' = authCount]_vars

C4_Witness ==
    /\ FailedWith(HandshakeCtx)
    /\ polled
    /\ Elapsed < ConnectBudget
    /\ authCount = 0

\* C5: a Session is returned only after a dial succeeded, the handshake over
\* that socket succeeded and authentication on that transport succeeded;
\* authentication is never started before the handshake succeeded.
C5_SessionOnlyAfterAuth ==
    /\ (pc = "connected" \/ session # NoSession) =>
            /\ pc = "connected"
            /\ session.authenticated
            /\ sock # 0 /\ transport = sock /\ session.sock = transport
            /\ hsCount = 1 /\ authCount = 1
    /\ authCount > 0 => (transport # 0 /\ transport = sock)
    /\ hsCount > 0 => sock # 0
    /\ (pc = "authenticating") => (transport # 0 /\ session = NoSession)

C5_Witness == pc = "connected" /\ session.authenticated /\ session.sock = 2

\* C10: one connect call decodes the key at most once, however many dial
\* attempts it makes, and authenticates with that decoded key.
C10_KeyDecodedOnce ==
    /\ decodes <= 1
    /\ authCount > 0 =>
            /\ decode_secret_key(keyIn).ok
            /\ authKey = decode_secret_key(keyIn).key

C10_Witness ==
    /\ pc = "connected"
    /\ attempts = MaxAttempts
    /\ decodes = 1
    /\ authKey = "KeyPairB"

\* C12: a failed dial attempt is followed by another attempt exactly when
\* the time since start is at most 120 s at that failure (at exactly 120 s
\* it still retries); a failure later than that ends the loop, and connect
\* fails with "failed to connect" wrapping the cause of that attempt.
C12_RetryIffWithinBudget ==
    /\ [][(pc = "dialing" /\ pc' = "failed") =>
            /\ Elapsed > ConnectBudget
            /\ now' = now /\ attempts' = attempts
            /\ \E c \in DialCauses :
                  /\ err' = <<"failed to connect to ssh port",
                              "failed to connect to ssh port", c>>
                  /\ (c = "DeadlineError::elapsed") => now >= deadline]_vars
    /\ [][(pc = "dialing" /\ polled /\ pc' = "dialing"
              /\ <<attempts', deadline'>> # <<attempts, deadline>>) =>
            /\ Elapsed <= ConnectBudget
            /\ attempts' = Min(attempts + 1, MaxAttempts)
            /\ err' = NoErr]_vars
    /\ []((pc = "dialing" /\ polled /\ Elapsed <= ConnectBudget) =>
            \A c \in DialCauses : ~ENABLED (DialErr(c) /\ pc' = "failed"))
    /\ []((pc = "dialing" /\ polled /\ Elapsed > ConnectBudget) =>
            \A c \in DialCauses : ~ENABLED (DialErr(c) /\ pc' = "dialing"))

\* An attempt failed at exactly 120 s and the next one was started.
C12_Witness ==
    /\ pc = "dialing" /\ polled
    /\ attempts >= 2
    /\ deadline = start + ConnectBudget + AttemptDeadline

\* C13 (as stated): the time before the first poll of the returned future
\* does not count against the budget, so a connect that fails in the dial
\* loop has retried at least once.
C13_FirstFailureRetried == FailedWith(ConnectCtx) => attempts >= 2

\* C13 (amended): the budget runs from the call of connect, where start is
\* taken and the first attempt is created; the first poll does not restart
\* it. A first attempt that fails within 120 s of the call is followed by a
\* retry; one whose failure is seen later than that, the first poll having
\* come late, ends connect with no retry.
C13_BudgetFromCall ==
    /\ [][(pc = "idle" /\ pc' = "dialing") =>
            (start' = now /\ attempts' = 1 /\ ~polled')]_vars
    /\ [][pc # "idle" => start' = start]_vars
    /\ [][(pc = "dialing" /\ attempts = 1 /\ Elapsed <= ConnectBudget
              /\ pc' # "dialing") => pc' = "handshaking"]_vars
    /\ []((FailedWith(ConnectCtx) /\ attempts = 1) => Elapsed > ConnectBudget)
    /\ []((pc = "dialing" /\ polled /\ attempts = 1 /\ Elapsed > ConnectBudget) =>
            ENABLED (DialErr("DeadlineError::elapsed") /\ pc' = "failed"))

\* The first poll came after the budget and the first failure ended connect.
C13_Witness ==
    /\ FailedWith(ConnectCtx)
    /\ attempts = 1
    /\ ~promptPoll

\* C14 (as stated): no dial attempt is pending later than 3 s after it
\* began.
C14_AttemptWithinDeadline == pc = "dialing" => now <= deadline

\* C14 (amended): every attempt's deadline is 3 s after the instant the
\* attempt is created, the first at the call of connect and each next one at
\* the failure of the one before, with no delay in between; once the future
\* has been polled no time passes beyond the current attempt's deadline, and
\* an attempt after the first is never pending past its deadline.
C14_DeadlinePerAttempt ==
    /\ [][(pc' = "dialing"
              /\ (pc = "idle" \/ <<attempts', deadline'>> # <<attempts, deadline>>)) =>
            (now' = now /\ deadline' = now + AttemptDeadline)]_vars
    /\ []((pc = "dialing" /\ polled /\ now >= deadline) => ~ENABLED Tick)
    /\ []((pc = "dialing" /\ attempts >= 2) => now <= deadline)
    /\ []((pc = "dialing" /\ polled /\ Elapsed <= ConnectBudget) =>
            ENABLED (DialErr("DeadlineError::inner(io::Error)")
                        /\ deadline' = now + AttemptDeadline))

\* The first attempt failed at once and the second was started in the same
\* instant, some time after connect was called.
C14_Witness ==
    /\ pc = "dialing" /\ polled
    /\ attempts = 2
    /\ now > start
    /\ deadline = now + AttemptDeadline

\* C18: the budget is looked at only when an attempt failed: a dial that
\* succeeds is accepted however much time has passed, and connect does not
\* fail with "failed to connect" once a dial attempt has succeeded.
C18_SuccessIgnoresBudget ==
    /\ []((pc = "dialing" /\ polled) => ENABLED (DialOk /\ pc' = "handshaking"))
    /\ [](sock # 0 => ~FailedWith(ConnectCtx))
    /\ [][(pc = "dialing" /\ sock' # 0) =>
            (pc' = "handshaking" /\ err' = NoErr)]_vars

\* A dial succeeded more than 120 s after start.
C18_Witness ==
    /\ pc = "handshaking"
    /\ sock # 0
    /\ ~promptPoll
    /\ Elapsed > ConnectBudget

\* C19: the dial attempts of one connect call are strictly sequential: at
\* most one connect future exists at a time, the next attempt is created
\* only when the one before has failed and been dropped, the socket the loop
\* breaks with is the one of the current attempt, and the handshake, the
\* authentication and the Session use that socket only.
C19_OneAttemptAtATime ==
    /\ [](Cardinality(live) <= 1)
    /\ []((pc = "dialing") <=> (live # {}))
    /\ [](pc = "dialing" => live = {attempts})
    /\ [][(pc = "dialing" /\ pc' = "dialing" /\ attempts' # attempts) =>
            (live' = {attempts'} /\ live \cap live' = {})]_vars
    /\ [][sock' # sock =>
            (sock = 0 /\ live = {sock'} /\ live' = {} /\ pc' = "handshaking")]_vars
    /\ [](transport \in {0, sock})
    /\ [](session # NoSession => (sock # 0 /\ session.sock = sock))

\* The first attempt was abandoned and the session runs over the socket of
\* the second.
C19_Witness ==
    /\ pc = "connected"
    /\ live = {}
    /\ sock = 2 /\ transport = 2
    /\ session = [sock |-> 2, authenticated |-> TRUE]

--------------------------------------------------------------------------
(* Properties of Session::cmd_raw and Session::cmd *)

\* The error chains cmd_raw can fail with for command c.
ExecErrs(c) == {context(ExecCtx(c), format_err(format_err(<<x>>))) : x \in OpenCauses}
ReadErrs(c) == {context(ReadCtx(c), <<x>>) : x \in ReadCauses}

\* The next call the caller can make: the first future not yet created.
NextCall(i) == cstate[i] = "unused" /\ \A j \in CmdIds : j < i => cstate[j] # "unused"

C7_NoPartialResult ==
    \A i \in CmdIds : cstate[i] = "done" =>
        /\ rawres[i].tag \in {"Ok", "Err"}
        /\ rawres[i].tag = "Ok" => (eof[i] /\ rawres[i].val = delivered[i])
        /\ rawres[i].tag = "Err" =>
              (~eof[i] /\ rawres[i].val \in ExecErrs(ccmd[i]) \cup ReadErrs(ccmd[i]))
        /\ ckind[i] = "cmd_raw" =>
              (result[i].tag = rawres[i].tag /\ result[i].val = rawres[i].val)

C7_Witness ==
    /\ cstate[1] = "done" /\ ckind[1] = "cmd_raw"
    /\ Len(buf[1]) = 2
    /\ result[1].tag = "Err" /\ result[1].val \in ReadErrs(ccmd[1])

\* The scalar values whose UTF-8 encoding the remote bytes can spell, and the
\* texts made of them.
Scalars ==
    {cp \in 0..2047 : \A k \in DOMAIN encode_utf8(cp) : encode_utf8(cp)[k] \in OutBytes}
Texts == UNION {[1..n -> Scalars] : n \in 0..MaxBytes}

\* The bytes are the UTF-8 encoding of some text.
ValidUtf8(b) == \E t \in Texts : encode_text(t) = b

Utf8Err == context(Utf8Ctx, <<"FromUtf8Error">>)

\* C8: cmd succeeds with text T exactly when its cmd_raw succeeds with bytes
\* that are valid UTF-8 and encode T; on bytes that are not valid UTF-8
\* cmd_raw succeeds and cmd fails with the invalid-utf-8 error; and when
\* cmd_raw fails, cmd fails with the same error.
C8_CmdProjectsCmdRaw ==
    \A i \in CmdIds : (cstate[i] = "done" /\ ckind[i] = "cmd") =>
        /\ (result[i].tag = "Ok") <=> (rawres[i].tag = "Ok" /\ ValidUtf8(rawres[i].val))
        /\ result[i].tag = "Ok" =>
              /\ result[i].val = rawres[i].val
              /\ encode_text(chars(result[i].val)) = rawres[i].val
        /\ (rawres[i].tag = "Ok" /\ ~ValidUtf8(rawres[i].val)) =>
              (result[i].tag = "Err" /\ result[i].val = Utf8Err)
        /\ rawres[i].tag = "Err" =>
              (result[i].tag = "Err" /\ result[i].val = rawres[i].val)

C8_Witness ==
    /\ cstate[1] = "done" /\ ckind[1] = "cmd"
    /\ rawres[1] = Ok(<<195>>) /\ result[1].tag = "Err"
    /\ cstate[2] = "done" /\ ckind[2] = "cmd"
    /\ rawres[2] = Ok(<<65>>) /\ result[2].tag = "Ok" /\ chars(result[2].val) = <<65>>

\* C9: a command called when no other is pending starts from an empty buffer
\* and its buffer and result hold only the bytes of its own channel, whether
\* the commands before it succeeded or failed.
C9_SequentialIndependent ==
    /\ [](\A i \in CmdIds :
            /\ (solo[i] /\ cstate[i] \in {"reading", "done"}) => buf[i] = delivered[i]
            /\ (solo[i] /\ cstate[i] = "done" /\ rawres[i].tag = "Ok") =>
                  rawres[i].val = delivered[i])
    /\ [][\A i \in CmdIds :
            (solo[i] /\ cstate[i] = "opening" /\ cstate'[i] = "reading") =>
                  buf'[i] = << >>]_vars

C9_Witness ==
    /\ cstate[1] = "done" /\ rawres[1].tag = "Err" /\ buf[1] # << >>
    /\ solo[2] /\ cstate[2] = "done"
    /\ rawres[2].tag = "Ok" /\ rawres[2].val # << >>

\* C15: a command runs in two steps, each with its own error: a channel that
\* cannot be opened fails the future with "failed to execute command" naming
\* the command, and its stream is never read; a failed read on an opened
\* channel fails it with "failed to read stdout of command" naming the
\* command; either error reaches the caller of cmd_raw and of cmd as an
\* error.
C15_StepErrors ==
    /\ [][\A i \in CmdIds : (cstate[i] = "opening" /\ cstate'[i] = "done") =>
            /\ rawres'[i].tag = "Err"
            /\ \E x \in OpenCauses : rawres'[i].val =
                  << <<"failed to execute command", ccmd[i]>>, "Debug", "Debug", x >>
            /\ result'[i] = rawres'[i]
            /\ delivered'[i] = << >> /\ buf'[i] = << >> /\ ~eof'[i]]_vars
    /\ [][\A i \in CmdIds :
            (cstate[i] = "reading" /\ cstate'[i] = "done" /\ ~eof'[i]) =>
                /\ rawres'[i].tag = "Err"
                /\ \E x \in ReadCauses : rawres'[i].val =
                      << <<"failed to read stdout of command", ccmd[i]>>, x >>
                /\ result'[i] = rawres'[i]]_vars
    /\ [][\A i \in CmdIds : cstate[i] = "done" =>
            /\ cstate'[i] = "done"
            /\ delivered'[i] = delivered[i] /\ buf'[i] = buf[i]
            /\ result'[i] = result[i]]_vars
    /\ [](\A i \in CmdIds :
            (delivered[i] # << >> \/ eof[i]) => cstate[i] \in {"reading", "done"})

\* One command failed to open its channel, the next one opened it, read
\* some bytes and then failed to read.
C15_Witness ==
    /\ cstate[1] = "done" /\ ckind[1] = "cmd"
    /\ result[1].tag = "Err" /\ Len(result[1].val) = 4 /\ delivered[1] = << >>
    /\ cstate[2] = "done" /\ ckind[2] = "cmd_raw"
    /\ result[2].tag = "Err" /\ Len(result[2].val) = 2 /\ delivered[2] # << >>

\* C11: what cmd_raw and cmd resolve to is decided by the stdout stream
\* alone, not by the exit status of the remote command or by its stderr:
\* two commands of the same kind whose channels delivered the same bytes up
\* to end-of-stream have the same result, whatever each one exited with.
C11_OutcomeFromStdoutOnly ==
    /\ \A i \in CmdIds : (cstate[i] = "done" /\ eof[i]) =>
          /\ exitStatus[i] # << >>
          /\ rawres[i] = Ok(delivered[i])
          /\ result[i] = IF ckind[i] = "cmd" THEN from_utf8(delivered[i])
                                             ELSE Ok(delivered[i])
    /\ \A i, j \in CmdIds :
          (/\ cstate[i] = "done" /\ cstate[j] = "done"
           /\ eof[i] /\ eof[j]
           /\ ckind[i] = ckind[j]
           /\ delivered[i] = delivered[j]) => result[i] = result[j]

\* Two commands with the same output, one exited with 0 and an empty stderr,
\* the other with 1 and something on stderr: both succeeded with that output.
C11_Witness ==
    /\ cstate[1] = "done" /\ cstate[2] = "done"
    /\ eof[1] /\ eof[2]
    /\ ckind[1] = ckind[2]
    /\ delivered[1] = delivered[2] /\ delivered[1] # << >>
    /\ exitStatus[1] = <<0>> /\ stderrOut[1] = << >>
    /\ exitStatus[2] = <<1>> /\ stderrOut[2] # << >>
    /\ result[1].tag = "Ok" /\ result[2] = result[1]

\* C16: only the dial is bounded in time. A cmd_raw / cmd future completes
\* only when its stream reaches end-of-stream or a read fails, so it stays
\* pending for as long as the remote end keeps the stream open; a handshake
\* or an authentication that gets no answer keeps connect pending however
\* far the clock is past the 120 s budget. A stream that reaches
\* end-of-stream completes cmd_raw with success.
C16_OnlyDialTimeBounded ==
    /\ [][\A i \in CmdIds : (cstate[i] = "reading" /\ cstate'[i] # "reading") =>
            /\ cstate'[i] = "done"
            /\ \/ eof'[i] /\ now' = now
               \/ /\ rawres'[i].tag = "Err"
                  /\ rawres'[i].val[1] = <<"failed to read stdout of command", ccmd[i]>>]_vars
    /\ [](\A i \in CmdIds : eof[i] =>
            (cstate[i] = "done" /\ rawres[i].tag = "Ok" /\ rawres[i].val = delivered[i]))
    /\ [](\A i \in CmdIds : cstate[i] = "reading" =>
            (rawres[i] = NoResult /\ result[i] = NoResult))
    /\ []((pc \in {"handshaking", "authenticating"} /\ now < MaxTime) => ENABLED Tick)
    /\ [][(pc \in {"handshaking", "authenticating"} /\ now' # now) =>
            (pc' = pc /\ err' = err)]_vars
    /\ [][(pc \in {"handshaking", "authenticating"} /\ pc' = "failed") =>
            err'[1] \in {"failed to establish ssh session",
                         "failed to authenticate ssh session"}]_vars

\* The authentication is still pending after the budget and one more
\* attempt deadline have passed on a future that was polled in time.
C16_Witness ==
    /\ pc = "authenticating"
    /\ promptPoll
    /\ Elapsed > ConnectBudget + AttemptDeadline
    /\ err = NoErr

\* C17: two sessions share no state: a step of the second session's connect
\* leaves the first session's connect and command state as it was, every
\* change of the first session's state is a step that session takes when it
\* runs alone and leaves the second session as it was, and one session
\* failing leaves the other where it was.
C17_SessionsIndependent ==
    /\ [][peer' # peer => UNCHANGED <<connVars, cmdVars>>]_vars
    /\ [][<<connVars, cmdVars>>' # <<connVars, cmdVars>> =>
            (NextSession /\ peer' = peer)]_vars
    /\ [][(pc' = "failed" /\ pc # "failed") => peer' = peer]_vars
    /\ [][(peer'.pc = "failed" /\ peer.pc # "failed") =>
            UNCHANGED <<connVars, cmdVars>>]_vars
    /\ [][\A i \in CmdIds : (cstate'[i] = "done" /\ cstate[i] # "done") =>
            peer' = peer]_vars
    /\ [](peer.pc = "dialing" => peer.deadline <= peer.start + ConnectBudget + AttemptDeadline)

\* The second session's dial loop ran out of its budget while the first
\* session, begun a second earlier, was in its handshake; the first session
\* was then established.
C17_Witness ==
    /\ pc = "connected" /\ session.authenticated
    /\ attempts = 1
    /\ peer.pc = "failed"
    /\ peer.err[1] = "failed to connect to ssh port"
    /\ peer.start > start

====
